---- MODULE Spec2Model ----
(***************************************************************************)
(* Model of src/app/src/App.js: the AnalysisPage component (date-range     *)
(* fetches, weather tabs), the AnalysisChart component (active forecast    *)
(* day and hover data) and the ForecastChart legend handler.               *)
(*                                                                         *)
(* JavaScript strings that the code parses (legend labels, lead-day keys,  *)
(* series names) are sequences of one-character strings, so that split()   *)
(* and includes() are computed and not tabulated.  Other JavaScript values *)
(* are records tagged with their type.                                     *)
(***************************************************************************)
EXTENDS Integers, Sequences, FiniteSets, TLC

VARIABLES
    weather,         \* AnalysisPage: useState('temperature')            (line 514)
    analysis,        \* AnalysisPage: useState(JSON.parse(testData))     (line 515)
    statusMessage,   \* AnalysisPage: useState('Select date range.')     (line 516)
    activeFcastDay,  \* AnalysisChart: useState(null)                    (line 389)
    activeData,      \* AnalysisChart: useState([])                      (line 390)
    requests,        \* the promise chains started by onFetch, in submission order
    crashed,         \* a render threw: React has unmounted the page
    server,          \* which documents the data source can deliver
    lastEvent,       \* history: the last event handled, and activeFcastDay before it
    clickRun         \* history: the label of the last legend click, when it was
                     \* made in Cumulative and only hover activations followed

vars == <<weather, analysis, statusMessage, activeFcastDay, activeData,
          requests, crashed, server, lastEvent, clickRun>>

----------------------------------------------------------------------------
(* Bounds *)

\* Fetches submitted in one behaviour.
MaxRequests == 2

\* Points reported by one hover activation.
MaxPoints == 1

\* Most points of one hover handed to the active-data display alone.
MaxHoverPoints == 3

\* Most entries of a TimestampMap handed to the chart alone.
MaxEntries == 3

----------------------------------------------------------------------------
(* JavaScript values *)

JSNull == [type |-> "null"]

JSUndefined == [type |-> "undefined"]

JSFalse == [type |-> "boolean", value |-> FALSE]

JSString(s) == [type |-> "string", value |-> s]

JSNumber(n) == [type |-> "number", value |-> n]

JSArray(items) == [type |-> "object", items |-> items]

\* ToBoolean, as used by `!activeDay`, `activeDay ? :` and `if (newActiveData)`.
truthy(v) ==
    CASE v.type = "string" -> v.value # <<>>
      [] v.type = "boolean" -> v.value
      [] v.type = "number" -> v.value # 0
      [] v.type = "object" -> TRUE
      [] OTHER -> FALSE

----------------------------------------------------------------------------
(* Strings *)

sDay == <<"-", "D", "a", "y">>

sError == <<"E", "r", "r", "o", "r">>

sActual == <<"A", "c", "t", "u", "a", "l">>

\* String.prototype.includes
includes(s, pat) ==
    \E i \in 0..(Len(s) - Len(pat)) : SubSeq(s, i + 1, i + Len(pat)) = pat

\* String.prototype.indexOf (0-based, -1 when absent)
indexOf(s, pat) ==
    IF includes(s, pat)
    THEN CHOOSE i \in 0..(Len(s) - Len(pat)) :
            /\ SubSeq(s, i + 1, i + Len(pat)) = pat
            /\ \A j \in 0..(i - 1) : SubSeq(s, j + 1, j + Len(pat)) # pat
    ELSE -1

\* `const [day] = labelName.split('-Day')`: the first piece of the split.
splitFirst(s, sep) ==
    IF indexOf(s, sep) = -1 THEN s ELSE SubSeq(s, 1, indexOf(s, sep))

\* The template literal `${day}-Day`.
dayLabel(day) == day \o sDay

----------------------------------------------------------------------------
(* Object.keys *)

Digits == {"0", "1", "2", "3", "4", "5", "6", "7", "8", "9"}

DigitValue(c) ==
    CASE c = "0" -> 0 [] c = "1" -> 1 [] c = "2" -> 2 [] c = "3" -> 3
      [] c = "4" -> 4 [] c = "5" -> 5 [] c = "6" -> 6 [] c = "7" -> 7
      [] c = "8" -> 8 [] c = "9" -> 9

\* A canonical numeric string: an integer-indexed property key.
IsArrayIndex(s) ==
    /\ Len(s) > 0
    /\ \A i \in 1..Len(s) : s[i] \in Digits
    /\ (Len(s) = 1 \/ s[1] # "0")

RECURSIVE ToNumber(_)
ToNumber(s) ==
    IF s = <<>> THEN 0
    ELSE 10 * ToNumber(SubSeq(s, 1, Len(s) - 1)) + DigitValue(s[Len(s)])

RECURSIVE SortByNumber(_)
SortByNumber(keys) ==
    IF keys = {} THEN <<>>
    ELSE LET least == CHOOSE k \in keys : \A o \in keys : ToNumber(k) <= ToNumber(o)
         IN  <<least>> \o SortByNumber(keys \ {least})

RECURSIVE SelectKeys(_, _)
\* the keys of the entries of obj that are (want = TRUE) or are not integer keys,
\* in the order of obj
SelectKeys(obj, want) ==
    IF obj = <<>> THEN <<>>
    ELSE IF IsArrayIndex(Head(obj).key) = want
         THEN <<Head(obj).key>> \o SelectKeys(Tail(obj), want)
         ELSE SelectKeys(Tail(obj), want)

\* Object.keys without the integer-key rule: every key as inserted.
ObjectKeysAsInserted(obj) == [i \in 1..Len(obj) |-> obj[i].key]

\* Object.keys(obj), obj being the entries in the order the JSON document lists
\* them: integer keys in ascending numeric order, then the others as inserted.
ObjectKeys(obj) ==
    SortByNumber({obj[i].key : i \in {j \in 1..Len(obj) : IsArrayIndex(obj[j].key)}})
        \o SelectKeys(obj, FALSE)

\* Array.prototype.includes
arrayIncludes(arr, x) == \E i \in 1..Len(arr) : arr[i] = x

----------------------------------------------------------------------------
(* Analysis documents *)

\* List of weather types the chart handles (line 520).
workingWeathers == <<"temperature", "dewpoint", "wind_speed", "cloud_cover">>

k1 == <<"1">>

k2 == <<"2">>

k3 == <<"3">>

k10 == <<"1", "0">>

kEmpty == <<>>

\* Timestamp keys of the TimestampMaps.  <<"T", h, h, ":", m, m>> stands for
\* the ISO-8601 string of that time of one fixed day; no such key is an
\* integer key, so that Object.keys lists them as inserted.
t0000 == <<"T", "0", "0", ":", "0", "0">>

t0100 == <<"T", "0", "1", ":", "0", "0">>

t0130 == <<"T", "0", "1", ":", "3", "0">>

t0200 == <<"T", "0", "2", ":", "0", "0">>

t0400 == <<"T", "0", "4", ":", "0", "0">>

\* A TimestampMap: its entries in document order, the i-th of value
\* 10 * series + i.
TimestampMap(keys, series) ==
    [i \in 1..Len(keys) |-> [key |-> keys[i], value |-> JSNumber(10 * series + i)]]

\* A StatsBlock: stat type -> properties, one of them named as the type.
StatsBlock(n) == [bias |-> [bias |-> JSNumber(n)]]

\* A LeadDayAnalysis under its key.
LeadDay(key, fcasts, errors, stats) ==
    [key |-> key, fcasts |-> fcasts, errors |-> errors, stats |-> stats]

\* A VariableAnalysis whose lead_days lists `keys` in document order; the
\* i-th lead day has its own forecasts, errors and statistics.
VariableAnalysis(prop, keys) ==
    [metadata  |-> [prop_name |-> prop],
     obs       |-> TimestampMap(<<t0100>>, 0),
     lead_days |-> [i \in 1..Len(keys) |->
                        LeadDay(keys[i],
                                TimestampMap(<<t0100>>, 2 * i),
                                TimestampMap(<<t0100>>, 2 * i + 1),
                                StatsBlock(i))],
     cumulative_stats |-> StatsBlock(0)]

\* An AnalysisPayload: one VariableAnalysis per weather type.
Payload(t, d, w, c) ==
    [type        |-> "object",
     temperature |-> VariableAnalysis("temperature", t),
     dewpoint    |-> VariableAnalysis("dewpoint", d),
     wind_speed  |-> VariableAnalysis("wind_speed", w),
     cloud_cover |-> VariableAnalysis("cloud_cover", c)]

\* The bundled sample document the page starts with.
testData == Payload(<<k1, k2, k3>>, <<k1, k2, k3>>, <<k1, k2, k3>>, <<k1, k2, k3>>)

\* Documents whose lead-day keys are day counts; a variable may have no
\* forecast at all in the requested range.
dataShort == Payload(<<k1, k2>>, <<k1, k2>>, <<k1>>, <<k1, k2>>)

dataLong == Payload(<<k10, k2>>, <<k2, k3>>, <<>>, <<k10, k2>>)

\* A document whose lead-day keys are arbitrary strings: the empty string, and
\* keys that contain the words the legend handler looks for.
dataOdd == Payload(<<kEmpty, sError, dayLabel(k2), k2>>, <<k1, k2>>, <<k1>>, <<k1, k2>>)

ConformingResponses == {dataShort, dataLong}

AnyResponses == {dataOdd}

Responses(srv) == IF srv = "conforming" THEN ConformingResponses ELSE AnyResponses

\* error.message of a rejected fetch() and of a rejected resp.json()
NetworkErrorMessage == "Failed to fetch"

ParseErrorMessage == "Unexpected token < in JSON at position 0"

----------------------------------------------------------------------------
(* ForecastChart *)

\* const activeFcasts = activeDay ? [activeDay] : Object.keys(analysis.lead_days)
activeFcasts(va, activeDay) ==
    IF truthy(activeDay) THEN <<activeDay.value>> ELSE ObjectKeys(va.lead_days)

\* toggleDisplayed without `activeFcasts.includes(day)`: the isolated day's own
\* label no longer clears the selection.
toggleDisplayedNoToggleOff(va, activeDay, labelName) ==
    LET allFcastDays == ObjectKeys(va.lead_days)
        day == splitFirst(labelName, sDay)
        shown == activeFcasts(va, activeDay)
    IN  IF ~truthy(activeDay)
        THEN IF includes(labelName, sError)
             THEN IF shown = <<>> THEN JSUndefined ELSE JSString(shown[1])
             ELSE IF arrayIncludes(allFcastDays, day) THEN JSString(day) ELSE JSFalse
        ELSE IF labelName = sActual
             THEN JSNull
             ELSE IF arrayIncludes(allFcastDays, day) THEN JSString(day) ELSE JSFalse

\* toggleDisplayed looking up the whole label, not the text before "-Day".
toggleDisplayedNoSplit(va, activeDay, labelName) ==
    LET allFcastDays == ObjectKeys(va.lead_days)
        day == labelName
        shown == activeFcasts(va, activeDay)
    IN  IF ~truthy(activeDay)
        THEN IF includes(labelName, sError)
             THEN IF shown = <<>> THEN JSUndefined ELSE JSString(shown[1])
             ELSE IF arrayIncludes(allFcastDays, day) THEN JSString(day) ELSE JSFalse
        ELSE IF labelName = sActual \/ arrayIncludes(shown, day)
             THEN JSNull
             ELSE IF arrayIncludes(allFcastDays, day) THEN JSString(day) ELSE JSFalse

\* toggleDisplayed clearing the selection on a click on any known day label.
toggleDisplayedClearsFirst(va, activeDay, labelName) ==
    LET allFcastDays == ObjectKeys(va.lead_days)
        day == splitFirst(labelName, sDay)
        shown == activeFcasts(va, activeDay)
    IN  IF ~truthy(activeDay)
        THEN IF includes(labelName, sError)
             THEN IF shown = <<>> THEN JSUndefined ELSE JSString(shown[1])
             ELSE IF arrayIncludes(allFcastDays, day) THEN JSString(day) ELSE JSFalse
        ELSE IF labelName = sActual \/ arrayIncludes(allFcastDays, day)
             THEN JSNull
             ELSE JSFalse

\* toggleDisplayed starting from `let newActiveDay = null`.
toggleDisplayedDefaultNull(va, activeDay, labelName) ==
    LET allFcastDays == ObjectKeys(va.lead_days)
        day == splitFirst(labelName, sDay)
        shown == activeFcasts(va, activeDay)
    IN  IF ~truthy(activeDay)
        THEN IF includes(labelName, sError)
             THEN IF shown = <<>> THEN JSUndefined ELSE JSString(shown[1])
             ELSE IF arrayIncludes(allFcastDays, day) THEN JSString(day) ELSE JSNull
        ELSE IF labelName = sActual \/ arrayIncludes(shown, day)
             THEN JSNull
             ELSE IF arrayIncludes(allFcastDays, day) THEN JSString(day) ELSE JSNull

\* toggleDisplayed taking a click on "Error" for a click on "Actual" when a day
\* is isolated.
toggleDisplayedErrorClears(va, activeDay, labelName) ==
    LET allFcastDays == ObjectKeys(va.lead_days)
        day == splitFirst(labelName, sDay)
        shown == activeFcasts(va, activeDay)
    IN  IF ~truthy(activeDay)
        THEN IF includes(labelName, sError)
             THEN IF shown = <<>> THEN JSUndefined ELSE JSString(shown[1])
             ELSE IF arrayIncludes(allFcastDays, day)
                  THEN JSString(day)
                  ELSE JSFalse
        ELSE IF labelName \in {sActual, sError} \/ arrayIncludes(shown, day)
             THEN JSNull
             ELSE IF arrayIncludes(allFcastDays, day)
                  THEN JSString(day)
                  ELSE JSFalse

\* The first argument toggleDisplayed hands to onChange (the second is []).
toggleDisplayed(va, activeDay, labelName) ==
    LET allFcastDays == ObjectKeys(va.lead_days)
        day == splitFirst(labelName, sDay)
        shown == activeFcasts(va, activeDay)
    IN  IF ~truthy(activeDay)
        THEN IF includes(labelName, sError)
             THEN IF shown = <<>> THEN JSUndefined ELSE JSString(shown[1])
             ELSE IF arrayIncludes(allFcastDays, day)
                  THEN JSString(day)
                  ELSE JSFalse
        ELSE IF labelName = sActual \/ arrayIncludes(shown, day)
             THEN JSNull
             ELSE IF arrayIncludes(allFcastDays, day)
                  THEN JSString(day)
                  ELSE JSFalse

\* The names of legendData: one per lead day, then the two groups.
legendNames(va) ==
    {dayLabel(ObjectKeys(va.lead_days)[i]) : i \in 1..Len(va.lead_days)}
        \cup {sActual, sError}

\* The render of ForecastChart and ErrorStatsDisplay reads
\* analysis.lead_days[activeDay].fcasts/.errors/.stats when activeDay is truthy:
\* it throws when lead_days has no such key.
rendersOk(va, activeDay) ==
    ~truthy(activeDay) \/ arrayIncludes(ObjectKeys(va.lead_days), activeDay.value)

----------------------------------------------------------------------------
(* AnalysisChart *)

\* handleChange without the `newActiveDay !== false` test.
handleChangeAlwaysSets(curDay, curData, newActiveDay, newActiveData) ==
    [activeFcastDay |-> newActiveDay,
     activeData     |-> IF truthy(newActiveData) THEN newActiveData ELSE curData]

\* handleChange taking an empty newActiveData for none.
handleChangeUnlessEmpty(curDay, curData, newActiveDay, newActiveData) ==
    [activeFcastDay |-> IF newActiveDay # JSFalse THEN newActiveDay ELSE curDay,
     activeData     |-> IF truthy(newActiveData) /\ newActiveData.items # <<>>
                        THEN newActiveData ELSE curData]

\* handleChange: the chart state after onChange(newActiveDay, newActiveData).
handleChange(curDay, curData, newActiveDay, newActiveData) ==
    [activeFcastDay |-> IF newActiveDay # JSFalse THEN newActiveDay ELSE curDay,
     activeData     |-> IF truthy(newActiveData) THEN newActiveData ELSE curData]

\* Points a hover activation can report.
sErrorArea0 == sError \o <<"-", "A", "r", "e", "a", "-", "0">>

sErrorArea1 == sError \o <<"-", "A", "r", "e", "a", "-", "1">>

\* A point of the voronoi container: the series it lies on, its charted
\* value and, on an error area, the forecast error.
HoverPoint(childName, y, amount) ==
    [childName |-> childName, _y |-> y, amount |-> amount]

\* The point of a forecast line.
linePoint == HoverPoint(dayLabel(k1), JSNumber(18), JSUndefined)

\* The points the page is hovered over.
HoverPoints == {linePoint}

\* The points a hover may hand to the active-data display, in any order:
\* points of a forecast line, of the observed line where nothing was
\* observed, and of error areas with and without a charted value.
AnyHoverPoints ==
    {linePoint,
     HoverPoint(sActual, JSNull, JSUndefined),
     HoverPoint(sErrorArea0, JSNumber(18), JSNumber(-2)),
     HoverPoint(sErrorArea1, JSNumber(17), JSNumber(3)),
     HoverPoint(sErrorArea0, JSNull, JSNumber(-2))}

RECURSIVE SeqsUpTo(_, _)
SeqsUpTo(S, n) ==
    IF n = 0 THEN {<<>>}
    ELSE LET shorter == SeqsUpTo(S, n - 1)
         IN  shorter \cup {Append(q, x) : q \in {p \in shorter : Len(p) = n - 1}, x \in S}

PointLists == SeqsUpTo(HoverPoints, MaxPoints)

AnyPointLists == SeqsUpTo(AnyHoverPoints, MaxHoverPoints)

----------------------------------------------------------------------------
(* The page *)

\* The VariableAnalysis AnalysisChart is given: analysis[weather] (line 554).
displayed == analysis[weather]

\* AnalysisChart is rendered only while analysis is set (lines 537-558).
chartMounted == analysis # JSNull /\ ~crashed

\* The history record of an event.
\* `prev` is the label of the legend click before a legend click (see clickRun).
Event(type, labelName, req, points) ==
    [type |-> type, labelName |-> labelName, req |-> req, points |-> points,
     before |-> activeFcastDay,
     prev |-> IF type = "legendClick" THEN clickRun ELSE <<>>]

\* clickRun after one more legend click.
runAfterClick(labelName) == IF activeFcastDay = JSNull THEN labelName ELSE <<>>

\* Submit button: fetchReturn calls onFetch with a new fetch() promise.  onFetch
\* sets the status message and clears the analysis; the chart is unmounted with
\* the analysis, and its state is created afresh by the next mount.
Submit ==
    /\ ~crashed
    /\ Len(requests) < MaxRequests
    /\ statusMessage' = "Retrieving..."
    /\ analysis' = JSNull
    /\ activeFcastDay' = JSNull
    /\ activeData' = JSArray(<<>>)
    /\ requests' = Append(requests, [pc |-> "fetch", result |-> JSUndefined])
    /\ lastEvent' = Event("submit", <<>>, Len(requests) + 1, <<>>)
    /\ clickRun' = <<>>
    /\ UNCHANGED <<weather, crashed, server>>

\* fetch() resolves with a response: the chain goes on to resp.json().
FetchResolve(r) ==
    /\ ~crashed
    /\ requests[r].pc = "fetch"
    /\ requests' = [requests EXCEPT ![r].pc = "json"]
    /\ lastEvent' = Event("response", <<>>, r, <<>>)
    /\ UNCHANGED <<weather, analysis, statusMessage, activeFcastDay, activeData,
                   crashed, server, clickRun>>

\* .catch((error) => setStatusMessage(error.message)), for a rejection of
\* fetch() (message NetworkErrorMessage) or of resp.json() (ParseErrorMessage).
FetchReject(r) ==
    /\ ~crashed
    /\ requests[r].pc \in {"fetch", "json"}
    /\ LET message == IF requests[r].pc = "fetch"
                      THEN NetworkErrorMessage ELSE ParseErrorMessage
       IN  /\ statusMessage' = message
           /\ requests' = [requests EXCEPT ![r] = [pc |-> "failed", result |-> JSUndefined]]
    /\ lastEvent' = Event("rejected", <<>>, r, <<>>)
    /\ UNCHANGED <<weather, analysis, activeFcastDay, activeData, crashed, server,
                   clickRun>>

\* The json callback dropping the response of any but the latest request.
JsonResolveUnlessStale(r) ==
    /\ ~crashed
    /\ requests[r].pc = "json"
    /\ \E json \in Responses(server) :
        /\ analysis' = IF r = Len(requests) THEN json ELSE analysis
        /\ requests' = [requests EXCEPT ![r] = [pc |-> "done", result |-> json]]
        /\ crashed' = (analysis' # JSNull /\ ~rendersOk(analysis'[weather], activeFcastDay))
    /\ lastEvent' = Event("json", <<>>, r, <<>>)
    /\ clickRun' = <<>>
    /\ UNCHANGED <<weather, statusMessage, activeFcastDay, activeData, server>>

\* .then((json) => { setAnalysis(json); }).  A chart that is mounted stays
\* mounted and keeps its state; the new render throws when the kept activeDay
\* is no key of the new lead_days.
JsonResolve(r) ==
    /\ ~crashed
    /\ requests[r].pc = "json"
    /\ \E json \in Responses(server) :
        /\ analysis' = json
        /\ requests' = [requests EXCEPT ![r] = [pc |-> "done", result |-> json]]
        /\ crashed' = ~rendersOk(json[weather], activeFcastDay)
    /\ lastEvent' = Event("json", <<>>, r, <<>>)
    /\ clickRun' = <<>>
    /\ UNCHANGED <<weather, statusMessage, activeFcastDay, activeData, server>>

\* Tabs onSelect={(key) => setWeather(key)}, key being a tab's eventKey.
SelectTab(key) ==
    /\ chartMounted
    /\ \E i \in 1..Len(workingWeathers) :
            key = analysis[workingWeathers[i]].metadata.prop_name
    /\ weather' = key
    /\ crashed' = ~rendersOk(analysis[key], activeFcastDay)
    /\ lastEvent' = Event("tab", <<>>, 0, <<>>)
    /\ clickRun' = <<>>
    /\ UNCHANGED <<analysis, statusMessage, activeFcastDay, activeData, requests, server>>

\* Labels of lead days of any document the page may hold.
DayLabels == {dayLabel(k) : k \in {k1, k2, k3, k10}}

\* The labels a legend click can carry: the names of the legend now drawn and,
\* through the toggleDisplayed prop, the label of any lead day.
clickLabels == IF chartMounted THEN legendNames(displayed) \cup DayLabels ELSE {}

\* VictoryLegend onClick: toggleDisplayed(target.datum.name), then
\* onChange(newActiveDay, []).
LegendClick(labelName) ==
    /\ chartMounted
    /\ LET next == handleChange(activeFcastDay, activeData,
                                toggleDisplayed(displayed, activeFcastDay, labelName),
                                JSArray(<<>>))
       IN  /\ activeFcastDay' = next.activeFcastDay
           /\ activeData' = next.activeData
           /\ crashed' = ~rendersOk(displayed, next.activeFcastDay)
    /\ lastEvent' = Event("legendClick", labelName, 0, <<>>)
    /\ clickRun' = runAfterClick(labelName)
    /\ UNCHANGED <<weather, analysis, statusMessage, requests, server>>

\* onActivated passing null, the value that clears the selection.
onActivatedPassingNull(points) ==
    [newActiveDay |-> JSNull, newActiveData |-> JSArray(points)]

\* onActivated={(points) => onChange(false, points)}: the arguments of onChange.
onActivated(points) ==
    [newActiveDay |-> JSFalse, newActiveData |-> JSArray(points)]

\* VictoryVoronoiContainer reports the points under the cursor.
Activated(points) ==
    /\ chartMounted
    /\ LET args == onActivated(points)
           next == handleChange(activeFcastDay, activeData,
                                args.newActiveDay, args.newActiveData)
       IN  /\ activeFcastDay' = next.activeFcastDay
           /\ activeData' = next.activeData
           /\ crashed' = ~rendersOk(displayed, next.activeFcastDay)
    /\ lastEvent' = Event("activated", <<>>, 0, points)
    /\ UNCHANGED <<weather, analysis, statusMessage, requests, server, clickRun>>

InitPage ==
    /\ weather = "temperature"
    /\ analysis = testData
    /\ statusMessage = "Select date range."
    /\ activeFcastDay = JSNull
    /\ activeData = JSArray(<<>>)
    /\ requests = <<>>
    /\ crashed = FALSE
    /\ lastEvent = [type |-> "init", labelName |-> <<>>, req |-> 0, points |-> <<>>,
                    before |-> JSNull, prev |-> <<>>]
    /\ clickRun = <<>>

\* The data source delivers documents whose lead-day keys are day counts.
Init == InitPage /\ server = "conforming"

\* The data source delivers documents with any string as a lead-day key.
InitAnyKeys == InitPage /\ server = "any"

Next ==
    \/ Submit
    \/ \E r \in 1..Len(requests) : FetchResolve(r)
    \/ \E r \in 1..Len(requests) : FetchReject(r)
    \/ \E r \in 1..Len(requests) : JsonResolve(r)
    \/ \E i \in 1..Len(workingWeathers) : SelectTab(workingWeathers[i])
    \/ \E labelName \in clickLabels : LegendClick(labelName)
    \/ \E points \in PointLists : Activated(points)

Spec == Init /\ [][Next]_vars

SpecAnyKeys == InitAnyKeys /\ [][Next]_vars

----------------------------------------------------------------------------
(* The legend state machine: properties *)

\* No lead day is selected.
Cumulative == activeFcastDay = JSNull

\* Lead day d is selected, and the chart treats it as selected (`activeDay ?`).
Isolated(d) == activeFcastDay = JSString(d) /\ truthy(activeFcastDay)

\* The same two states, of the moment before the last event.
wasCumulative == lastEvent.before = JSNull

wasIsolated(d) == lastEvent.before = JSString(d) /\ truthy(lastEvent.before)

\* The lead-day keys of the displayed analysis.
leadDayKeys ==
    {ObjectKeys(displayed.lead_days)[i] : i \in 1..Len(displayed.lead_days)}

legendClicked == lastEvent.type = "legendClick"

\* C1: for every lead-day key d of the displayed analysis, a click on "d-Day" in
\* Cumulative followed, hover activations apart, by a second click on "d-Day"
\* ends in Cumulative; and from Isolated(d) a click on "Actual" or on "d-Day"
\* ends in Cumulative.
ToggleReturnsToCumulative ==
    legendClicked =>
        \A d \in leadDayKeys :
            /\ (lastEvent.prev = dayLabel(d) /\ lastEvent.labelName = dayLabel(d))
                    => Cumulative
            /\ (wasIsolated(d) /\ lastEvent.labelName \in {sActual, dayLabel(d)})
                    => Cumulative

ToggledTwice ==
    /\ legendClicked
    /\ lastEvent.prev = dayLabel(k2)
    /\ lastEvent.labelName = dayLabel(k2)
    /\ wasIsolated(k2)
    /\ Cumulative

\* C2 as stated: from Cumulative, a click on "d-Day" makes the state
\* Isolated(d) for every key d of lead_days, whatever string d is.
ClickIsolatesAnyKey ==
    (legendClicked /\ wasCumulative) =>
        \A d \in leadDayKeys : lastEvent.labelName = dayLabel(d) => Isolated(d)

\* A key the legend handler reads back from its label: not empty, and with
\* neither "Error" nor "-Day" in it.
plainKey(d) == d # <<>> /\ ~includes(d, sError) /\ ~includes(d, sDay)

\* C2, amended: from Cumulative, a click on "d-Day" makes the state Isolated(d)
\* for every key d of lead_days that is not empty and contains neither "Error"
\* nor "-Day".
ClickIsolatesPlainKey ==
    (legendClicked /\ wasCumulative) =>
        \A d \in leadDayKeys :
            (plainKey(d) /\ lastEvent.labelName = dayLabel(d)) => Isolated(d)

IsolatedFromCumulative ==
    /\ analysis = dataOdd
    /\ weather = "temperature"
    /\ legendClicked
    /\ wasCumulative
    /\ lastEvent.labelName = dayLabel(k2)
    /\ Isolated(k2)

\* C3: from Isolated(d), a click on "e-Day" for another key e of lead_days makes
\* the state Isolated(e) in that one step.
SwitchesDirectly ==
    legendClicked =>
        \A d \in leadDayKeys : \A e \in leadDayKeys \ {d} :
            (wasIsolated(d) /\ lastEvent.labelName = dayLabel(e)) => Isolated(e)

SwitchedDirectly ==
    /\ legendClicked
    /\ wasIsolated(k1)
    /\ lastEvent.labelName = dayLabel(k3)
    /\ Isolated(k3)

\* d is a key of lead_days and no key is numerically smaller.
firstLeadDay(d) ==
    d \in leadDayKeys /\ \A k \in leadDayKeys : ToNumber(d) <= ToNumber(k)

UnknownLabelIsNoOp ==
    (legendClicked /\ lastEvent.labelName \notin legendNames(displayed)) =>
        /\ activeFcastDay = lastEvent.before
        /\ ~crashed

UnknownLabelClicked ==
    /\ legendClicked
    /\ lastEvent.labelName = dayLabel(k10)
    /\ k10 \notin leadDayKeys
    /\ wasIsolated(k1)
    /\ Isolated(k1)

\* C9: from Cumulative, a legend click on "Actual" leaves activeDay null.
ActualKeepsCumulative ==
    (legendClicked /\ wasCumulative /\ lastEvent.labelName = sActual) => Cumulative

ActualClickedInCumulative ==
    /\ legendClicked
    /\ wasCumulative
    /\ lastEvent.labelName = sActual
    /\ Cumulative

\* C10: a hover activation replaces the hover points and leaves activeDay as it
\* was; only a legend click, or the unmount of the chart by a new submission,
\* changes activeDay.
HoverKeepsActiveDay ==
    /\ lastEvent.type = "activated" =>
            /\ activeFcastDay = lastEvent.before
            /\ activeData = JSArray(lastEvent.points)
    /\ lastEvent.type \notin {"legendClick", "submit", "init"} =>
            activeFcastDay = lastEvent.before

HoveredWhileIsolated ==
    /\ lastEvent.type = "activated"
    /\ lastEvent.points # <<>>
    /\ wasIsolated(k2)
    /\ Isolated(k2)
    /\ activeData = JSArray(lastEvent.points)

----------------------------------------------------------------------------
(* Fetches: properties *)

\* C5: after every successful fetch resolution, the new analysis being
\* displayed, activeDay is null.
FreshPayloadResetsActiveDay ==
    lastEvent.type = "json" => Cumulative

\* C6: after every failed fetch the status message is the error's message and
\* the analysis is null, so that the message is what the page shows.
FailureShowsMessage ==
    lastEvent.type = "rejected" =>
        /\ statusMessage \in {NetworkErrorMessage, ParseErrorMessage}
        /\ analysis = JSNull

\* C7: no request is cancelled or fenced by a later one: every pending chain
\* can still take its next step, and the analysis displayed after a successful
\* resolution is that response, also when the request is not the latest.
LastResolvedWins ==
    /\ lastEvent.type = "json" =>
            /\ requests[lastEvent.req].pc = "done"
            /\ analysis = requests[lastEvent.req].result
    /\ ~crashed =>
            \A r \in 1..Len(requests) :
                /\ requests[r].pc = "fetch" => ENABLED FetchResolve(r)
                /\ requests[r].pc = "json" => ENABLED JsonResolve(r)

StaleResponseDisplayed ==
    /\ Len(requests) >= 2
    /\ requests[1].pc = "done"
    /\ requests[2].pc = "done"
    /\ lastEvent.type = "json"
    /\ lastEvent.req = 1
    /\ requests[1].result # requests[2].result
    /\ analysis = requests[1].result

----------------------------------------------------------------------------
(* ForecastChart: what one render charts *)

\* The hour the error areas are joined by, in milliseconds.
MsPerHour == 3600000

\* new Date(timeStr).valueOf() of a timestamp key, in milliseconds after the
\* midnight of its day.
DateValue(timeStr) ==
    ((10 * DigitValue(timeStr[2]) + DigitValue(timeStr[3])) * 60
        + 10 * DigitValue(timeStr[5]) + DigitValue(timeStr[6])) * 60000

\* obj[key]: the value under the key, undefined when obj has no such key.
get(obj, key) ==
    IF \E i \in 1..Len(obj) : obj[i].key = key
    THEN obj[CHOOSE i \in 1..Len(obj) : obj[i].key = key].value
    ELSE JSUndefined

\* Object.entries(obj): the [key, value] pairs in the order of Object.keys.
ObjectEntries(obj) ==
    LET keys == ObjectKeys(obj)
    IN  [i \in 1..Len(keys) |-> <<keys[i], get(obj, keys[i])>>]

\* analysis.lead_days[leadDay], leadDay being one of the keys.
leadDayOf(va, leadDay) ==
    va.lead_days[CHOOSE i \in 1..Len(va.lead_days) : va.lead_days[i].key = leadDay]

\* The step of the reduce joining every entry later than the last point of the
\* last area to that area, however much later.
erreaStepJoiningLater(va, activeDay, erreas, entry) ==
    LET time == DateValue(entry[1])
        erreaDatum == [x      |-> time,
                       y      |-> get(leadDayOf(va, activeDay).fcasts, entry[1]),
                       y0     |-> get(va.obs, entry[1]),
                       amount |-> entry[2]]
    IN  IF erreas # <<>>
           /\ erreas[Len(erreas)][Len(erreas[Len(erreas)])].x < time
        THEN [erreas EXCEPT ![Len(erreas)] = Append(@, erreaDatum)]
        ELSE Append(erreas, <<erreaDatum>>)

\* One step of the reduce: the entry joins the last area when it is one hour
\* after that area's last point, and starts a new area otherwise.
erreaStep(va, activeDay, erreas, entry) ==
    LET time == DateValue(entry[1])
        erreaDatum == [x      |-> time,
                       y      |-> get(leadDayOf(va, activeDay).fcasts, entry[1]),
                       y0     |-> get(va.obs, entry[1]),
                       amount |-> entry[2]]
    IN  IF erreas # <<>>
           /\ erreas[Len(erreas)][Len(erreas[Len(erreas)])].x = time - MsPerHour
        THEN [erreas EXCEPT ![Len(erreas)] = Append(@, erreaDatum)]
        ELSE Append(erreas, <<erreaDatum>>)

RECURSIVE reduceErreas(_, _, _)
\* entries.reduce(erreaStep, []), over the first n entries
reduceErreas(va, activeDay, n) ==
    IF n = 0 THEN <<>>
    ELSE erreaStep(va, activeDay, reduceErreas(va, activeDay, n - 1),
                   ObjectEntries(leadDayOf(va, activeDay).errors)[n])

\* The data of the error areas of displayedErrea: none without an active day.
displayedErrea(va, activeDay) ==
    IF truthy(activeDay)
    THEN reduceErreas(va, activeDay.value, Len(leadDayOf(va, activeDay.value).errors))
    ELSE <<>>

\* The points a line is given: its data with the x and y accessors applied,
\* in the order of the data.
linePoints(entries) ==
    [i \in 1..Len(entries) |-> [x |-> DateValue(entries[i][1]), y |-> entries[i][2]]]

\* displayedFcastLines with a line for every lead day, isolated or not.
displayedFcastLinesOfAllDays(va, activeDay) ==
    LET leadDays == ObjectKeys(va.lead_days)
    IN  [n \in 1..Len(leadDays) |->
            [name    |-> dayLabel(leadDays[n]),
             data    |-> linePoints(ObjectEntries(leadDayOf(va, leadDays[n]).fcasts)),
             opacity |-> IF n - 1 >= 1 THEN 9 - (n - 1) ELSE 10]]

\* The children of displayedFcastLines: one line per active forecast, the
\* opacity in tenths.
displayedFcastLines(va, activeDay) ==
    LET leadDays == activeFcasts(va, activeDay)
    IN  [n \in 1..Len(leadDays) |->
            [name    |-> dayLabel(leadDays[n]),
             data    |-> linePoints(ObjectEntries(leadDayOf(va, leadDays[n]).fcasts)),
             opacity |-> IF n - 1 >= 1 THEN 9 - (n - 1) ELSE 10]]

\* The line of observedLine.
observedLine(va) ==
    [name |-> sActual, data |-> linePoints(ObjectEntries(va.obs))]

\* The entries of legendData for the lead days, opacities in tenths: the
\* entry of a day with no line on the chart is dimmed.
legendData(va, activeDay) ==
    LET leadDays == ObjectKeys(va.lead_days)
        lines == displayedFcastLines(va, activeDay)
    IN  [n \in 1..Len(leadDays) |->
            LET found == {i \in 1..Len(lines) : lines[i].name = dayLabel(leadDays[n])}
                line == lines[CHOOSE i \in found : \A o \in found : i <= o]
            IN  [name   |-> dayLabel(leadDays[n]),
                 symbol |-> [opacity |-> IF found # {} THEN line.opacity ELSE 1],
                 labels |-> [opacity |-> IF found # {} THEN 10 ELSE 2]]]

----------------------------------------------------------------------------
(* ErrorStatsDisplay *)

sCumulative == <<"C", "u", "m", "u", "l", "a", "t", "i", "v", "e">>

\* ErrorStatsDisplay without the choice on activeDay: always the cumulative
\* statistics.
ErrorStatsDisplayCumulativeOnly(va, activeDay) ==
    [activeDayDisplayText |-> sCumulative, stats |-> va.cumulative_stats]

\* The heading and the statistics block ErrorStatsDisplay shows.
ErrorStatsDisplay(va, activeDay) ==
    [activeDayDisplayText |->
        IF ~truthy(activeDay) THEN sCumulative ELSE dayLabel(activeDay.value),
     stats |->
        IF ~truthy(activeDay) THEN va.cumulative_stats
        ELSE leadDayOf(va, activeDay.value).stats]

----------------------------------------------------------------------------
(* ActiveDataDisplay *)

sForecastError ==
    <<"F", "o", "r", "e", "c", "a", "s", "t", " ">> \o sError

\* A LabeledValue element.
LabeledValue(label, value) == [label |-> label, value |-> value]

\* The forEach callback with the error datum pushed where it stands.
formatDatumErrorInPlace(formatted, datum) ==
    IF datum._y = JSNull THEN formatted
    ELSE IF ~includes(datum.childName, sError)
    THEN [formatted EXCEPT
            !.formattedData = Append(@, LabeledValue(datum.childName, datum._y))]
    ELSE [formatted EXCEPT
            !.formattedData = Append(@, LabeledValue(sForecastError, datum.amount))]

\* The forEach callback: a datum with a null _y is skipped; any other datum is
\* pushed under its series name, or, on an error area, kept aside as the
\* forecast error.
formatDatum(formatted, datum) ==
    IF datum._y = JSNull THEN formatted
    ELSE IF ~includes(datum.childName, sError)
    THEN [formatted EXCEPT
            !.formattedData = Append(@, LabeledValue(datum.childName, datum._y))]
    ELSE [formatted EXCEPT
            !.formattedErrorDatum = LabeledValue(sForecastError, datum.amount)]

RECURSIVE formatData(_, _)
\* data.forEach(formatDatum), over the first n points
formatData(items, n) ==
    IF n = 0 THEN [formattedData |-> <<>>, formattedErrorDatum |-> JSUndefined]
    ELSE formatDatum(formatData(items, n - 1), items[n])

\* What ActiveDataDisplay returns: the empty string, or the container with
\* its heading row and the row of formattedData.
ActiveDataDisplay(data) ==
    IF ~truthy(data) \/ Len(data.items) = 0 THEN JSString(<<>>)
    ELSE LET formatted == formatData(data.items, Len(data.items))
         IN  [type     |-> "element",
              heading  |-> TRUE,
              children |-> IF formatted.formattedErrorDatum # JSUndefined
                           THEN Append(formatted.formattedData,
                                       formatted.formattedErrorDatum)
                           ELSE formatted.formattedData]

----------------------------------------------------------------------------
(* The chart alone, given an analysis *)

\* A document whose temperature analysis has, under lead day "1", forecasts
\* and errors at the timestamps `keys` in that order, and observations at the
\* same timestamps.
ChartDocument(keys) ==
    [testData EXCEPT
        !.temperature.obs = TimestampMap(keys, 0),
        !.temperature.lead_days[1].fcasts = TimestampMap(keys, 2),
        !.temperature.lead_days[1].errors = TimestampMap(keys, 3)]

Timestamps == {t0000, t0100, t0130, t0200, t0400}

\* Every list of at most MaxEntries different timestamps, in every order.
KeyLists ==
    {keys \in SeqsUpTo(Timestamps, MaxEntries) :
        \A i, j \in 1..Len(keys) : i # j => keys[i] # keys[j]}

ChartDocuments == {ChartDocument(keys) : keys \in KeyLists}

\* AnalysisChart is mounted with any such document.
InitChart ==
    /\ InitPage!1
    /\ analysis \in ChartDocuments
    /\ InitPage!3
    /\ InitPage!4
    /\ InitPage!5
    /\ InitPage!6
    /\ InitPage!7
    /\ InitPage!8
    /\ InitPage!9
    /\ server = "conforming"

\* The events of the chart: legend clicks and hover activations.
NextChart ==
    \/ \E labelName \in clickLabels : LegendClick(labelName)
    \/ \E points \in PointLists : Activated(points)

SpecChart == InitChart /\ [][NextChart]_vars


----------------------------------------------------------------------------
(* Error regions *)

\* The errors map of the active lead day, as stored.
activeErrors == leadDayOf(displayed, activeFcastDay.value).errors

\* The error regions of the displayed chart.
erreas == displayedErrea(displayed, activeFcastDay)

\* The time and amount of every point of the error regions.
erreaAmounts ==
    UNION {{<<erreas[r][i].x, erreas[r][i].amount>> : i \in 1..Len(erreas[r])} :
                r \in 1..Len(erreas)}

\* The positions of the points of the error regions: region and place in it.
erreaPositions ==
    UNION {{<<r, i>> : i \in 1..Len(erreas[r])} : r \in 1..Len(erreas)}

\* A lead day of the displayed analysis is isolated and charted.
isolatedChart == chartMounted /\ truthy(activeFcastDay)

\* The positions of a set of times where the next time is not one hour later.
gapPositions(times) ==
    {t \in times :
        \E u \in times : /\ u > t
                         /\ \A v \in times : v > t => u <= v
                         /\ u - t # MsPerHour}

\* C11: for every errors map of the active lead day, in whatever order its keys
\* are stored, the number of error regions is the number of gap positions plus
\* one, a gap position being a pair of time-adjacent timestamps that are not
\* exactly one hour apart; an empty map yields no region.
RegionCountIsGapsPlusOne ==
    isolatedChart =>
        IF activeErrors = <<>> THEN erreas = <<>>
        ELSE Len(erreas) =
                Cardinality(gapPositions({DateValue(activeErrors[i].key) :
                                            i \in 1..Len(activeErrors)})) + 1

\* C17: every error region built is non-empty and its consecutive points are
\* exactly 3,600,000 ms apart, for every errors map and every order of its
\* keys; the regions together hold each entry of the errors map exactly once.
RegionsAreHourlyRuns ==
    isolatedChart =>
        /\ \A r \in 1..Len(erreas) :
            /\ erreas[r] # <<>>
            /\ \A i \in 1..(Len(erreas[r]) - 1) :
                    erreas[r][i + 1].x - erreas[r][i].x = 3600000
        /\ \A e \in 1..Len(activeErrors) :
                Cardinality({p \in erreaPositions :
                                /\ erreas[p[1]][p[2]].x = DateValue(activeErrors[e].key)
                                /\ erreas[p[1]][p[2]].amount = activeErrors[e].value}) = 1
        /\ Cardinality(erreaPositions) = Len(activeErrors)

TwoRegionsOfUnorderedKeys ==
    /\ isolatedChart
    /\ legendClicked
    /\ Len(activeErrors) = 3
    /\ activeErrors[1].key = t0400
    /\ activeErrors[2].key = t0100
    /\ activeErrors[3].key = t0200
    /\ Len(erreas) = 2
    /\ Len(erreas[2]) = 2

----------------------------------------------------------------------------
(* Time series *)

\* The points of a line are in ascending order of time.
ascending(data) == \A i, j \in 1..Len(data) : i < j => data[i].x < data[j].x

\* The points of a line are the entries of the map, each one once.
sameEntries(data, obj) ==
    /\ Len(data) = Len(obj)
    /\ \A i \in 1..Len(obj) :
            Cardinality({j \in 1..Len(data) :
                            /\ data[j].x = DateValue(obj[i].key)
                            /\ data[j].y = obj[i].value}) = 1

\* The lines of the displayed chart.
fcastLines == displayedFcastLines(displayed, activeFcastDay)

\* C12: the points handed to the chart for each forecast line and for the
\* observed line are in ascending order of time and are the entries of the
\* timestamp map, none dropped and none duplicated, whatever the order of the
\* keys of the map.
LinesAscendingAndComplete ==
    chartMounted =>
        /\ ascending(observedLine(displayed).data)
        /\ sameEntries(observedLine(displayed).data, displayed.obs)
        /\ \A n \in 1..Len(fcastLines) :
            LET leadDay == activeFcasts(displayed, activeFcastDay)[n]
            IN  /\ ascending(fcastLines[n].data)
                /\ sameEntries(fcastLines[n].data, leadDayOf(displayed, leadDay).fcasts)


----------------------------------------------------------------------------
(* Statistics *)

\* The statistics block on display.
statsShown == ErrorStatsDisplay(displayed, activeFcastDay).stats

\* C13: whenever the chart is displayed, the statistics block shown is
\* cumulative_stats in Cumulative and lead_days[d].stats in Isolated(d), for
\* every lead-day key d; with a day selected it is never cumulative_stats.
StatsFollowActiveDay ==
    chartMounted =>
        /\ Cumulative => statsShown = displayed.cumulative_stats
        /\ \A d \in leadDayKeys :
                Isolated(d) => /\ statsShown = leadDayOf(displayed, d).stats
                               /\ statsShown # displayed.cumulative_stats

StatsOfDayKeptByTab ==
    /\ chartMounted
    /\ lastEvent.type = "tab"
    /\ weather = "dewpoint"
    /\ Isolated(k2)
    /\ statsShown = leadDayOf(displayed, k2).stats


----------------------------------------------------------------------------
(* The active-data display alone, given the points of a hover *)

\* The events of the display: hover activations with any points.
NextHover == \E points \in AnyPointLists : Activated(points)

SpecHover == Init /\ [][NextHover]_vars

\* The display of the stored hover points.
dataDisplay == ActiveDataDisplay(activeData)

\* The sequence of values on display, empty when nothing is displayed.
shownValues == IF dataDisplay = JSString(<<>>) THEN <<>> ELSE dataDisplay.children

\* The stored hover points.
hovered == activeData.items

\* The positions of the stored points that lie on an error area.
errorPoints == {i \in 1..Len(hovered) : includes(hovered[i].childName, sError)}

\* Those of them with a value.
valuedErrorPoints == {i \in errorPoints : hovered[i]._y # JSNull}

\* The shown values hold one "Forecast Error" entry, the last one, and every
\* other point with a value stands before it under its series name.
oneErrorEntryLast ==
    /\ Cardinality({j \in 1..Len(shownValues) :
                        shownValues[j].label = sForecastError}) = 1
    /\ shownValues[Len(shownValues)].label = sForecastError
    /\ \A i \in (1..Len(hovered)) \ errorPoints :
            hovered[i]._y # JSNull =>
                \E j \in 1..(Len(shownValues) - 1) :
                    shownValues[j] = LabeledValue(hovered[i].childName, hovered[i]._y)

\* C14 as stated: when at least one hover point lies on a series whose name
\* contains "Error", its value null or not, the shown values hold exactly one
\* "Forecast Error" entry, with the error amount of such a point, in the last
\* place, after every other point that has a value.
ErrorPointGivesErrorEntry ==
    errorPoints # {} =>
        /\ oneErrorEntryLast
        /\ \E i \in errorPoints :
                shownValues[Len(shownValues)].value = hovered[i].amount

\* C14, amended: when at least one hover point with a value that is not null
\* lies on a series whose name contains "Error", the shown values hold exactly
\* one "Forecast Error" entry, with the error amount of the last such point, in
\* the last place, after every other point that has a value; with no such
\* point they hold no "Forecast Error" entry.
ValuedErrorPointGivesErrorEntry ==
    IF valuedErrorPoints # {}
    THEN /\ oneErrorEntryLast
         /\ LET last == CHOOSE i \in valuedErrorPoints :
                            \A k \in valuedErrorPoints : k <= i
            IN  shownValues[Len(shownValues)].value = hovered[last].amount
    ELSE \A j \in 1..Len(shownValues) : shownValues[j].label # sForecastError

ErrorEntryShownLast ==
    /\ lastEvent.type = "activated"
    /\ Len(hovered) = 3
    /\ hovered[1].childName = sErrorArea1
    /\ hovered[2].childName = sErrorArea0
    /\ hovered[2]._y # JSNull
    /\ hovered[3] = linePoint
    /\ shownValues = <<LabeledValue(dayLabel(k1), JSNumber(18)),
                       LabeledValue(sForecastError, JSNumber(-2))>>


\* C15: when the sequence of formatted values is empty, there being no hover
\* point or only points with a null value, the active-data display renders
\* nothing: no heading and no values.
NoValuesRendersNothing ==
    (\A i \in 1..Len(hovered) : hovered[i]._y = JSNull) =>
        /\ shownValues = <<>>
        /\ dataDisplay = JSString(<<>>)


----------------------------------------------------------------------------
(* What is charted in each state *)

\* The legend entries of the lead days of the displayed chart.
legend == legendData(displayed, activeFcastDay)

\* The time and value of every entry of a TimestampMap.
entriesOf(obj) == {<<DateValue(obj[i].key), obj[i].value>> : i \in 1..Len(obj)}

\* C16: whenever the chart is displayed, in Isolated(d) the one forecast line
\* plotted is that of d, the error regions hold the entries of the errors map of
\* d and nothing else, and the legend entry of every other lead day is dimmed
\* (symbol opacity 0.1, label opacity 0.2); in Cumulative one line is plotted
\* for every lead day and no error region is.
OnlyActiveDayCharted ==
    chartMounted =>
        /\ \A d \in leadDayKeys :
            Isolated(d) =>
                /\ Len(fcastLines) = 1
                /\ fcastLines[1].name = dayLabel(d)
                /\ fcastLines[1].data
                        = linePoints(ObjectEntries(leadDayOf(displayed, d).fcasts))
                /\ erreaAmounts = entriesOf(leadDayOf(displayed, d).errors)
                /\ \A n \in 1..Len(legend) :
                        legend[n].name # dayLabel(d) =>
                            /\ legend[n].symbol.opacity = 1
                            /\ legend[n].labels.opacity = 2
        /\ Cumulative =>
                /\ Len(fcastLines) = Cardinality(leadDayKeys)
                /\ \A d \in leadDayKeys :
                        \E n \in 1..Len(fcastLines) : fcastLines[n].name = dayLabel(d)
                /\ erreas = <<>>

OthersDimmedWhenIsolated ==
    /\ chartMounted
    /\ Isolated(k2)
    /\ Len(legend) = 3
    /\ legend[1].symbol.opacity = 1
    /\ legend[2].symbol.opacity = 10
    /\ legend[3].labels.opacity = 2
    /\ Len(fcastLines) = 1
    /\ erreas # <<>>


----------------------------------------------------------------------------
(* The active day under every interleaving *)

\* C18: in every state in which the page has an analysis to chart, the active
\* day is null or a key of lead_days of the displayed analysis, whatever legend
\* clicks, hovers, tab selections, submissions and responses came before.
ActiveDayIsNullOrKey ==
    analysis # JSNull =>
        \/ activeFcastDay = JSNull
        \/ /\ activeFcastDay.type = "string"
           /\ activeFcastDay.value \in leadDayKeys


----------------------------------------------------------------------------
(* Legend clicks and the stored hover points *)

\* C19: every legend click, also one that leaves the active day as it is,
\* empties the stored hover points, and the active-data display then renders
\* nothing; the stored points stay empty until a hover activation.
LegendClickClearsHover ==
    [][/\ lastEvent'.type = "legendClick" =>
            /\ activeData' = JSArray(<<>>)
            /\ ActiveDataDisplay(activeData') = JSString(<<>>)
       /\ (activeData = JSArray(<<>>) /\ lastEvent'.type # "activated") =>
            activeData' = JSArray(<<>>)]_vars

HoverClearedByIdleClick ==
    /\ legendClicked
    /\ lastEvent.labelName = sActual
    /\ wasCumulative
    /\ Cumulative
    /\ activeData = JSArray(<<>>)
    /\ dataDisplay = JSString(<<>>)

\* C20: from Isolated(d), a legend click on "Error" leaves the state
\* Isolated(d).
ErrorClickKeepsIsolated ==
    (legendClicked /\ lastEvent.labelName = sError) =>
        \A d \in leadDayKeys : wasIsolated(d) => Isolated(d)

ErrorClickedWhileIsolated ==
    /\ legendClicked
    /\ lastEvent.labelName = sError
    /\ wasIsolated(k2)
    /\ Isolated(k2)


====
